---------------------------- MODULE Spec2Model ----------------------------
(***************************************************************************)
(* A model of hnscraper: ScrapePage / ScrapeMultPages and the field        *)
(* extractors they call.  Go strings are sequences of one-character        *)
(* strings; an html.Node is a record holding what the htmlquery selectors  *)
(* of the code find under it.                                              *)
(***************************************************************************)
EXTENDS Integers, Sequences, FiniteSets, TLC

VARIABLES
    build,          \* which copy of the package is compiled
    pc,             \* position of the single (synchronous) caller
    api,            \* the exported function the caller invoked
    startPage,      \* ScrapeMultPages arguments
    endPage,
    i,              \* ScrapeMultPages loop variable
    pages,          \* ScrapeMultPages accumulator
    pageNum,        \* ScrapePage argument
    doc,            \* result of htmlquery.LoadURL (rows of the item list)
    err,            \* error of htmlquery.LoadURL
    retrievedTime,  \* ScrapePage local
    j,              \* ScrapePage loop variable (i in the source)
    posts,          \* ScrapePage accumulator
    spRet,          \* what ScrapePage returned
    ret,            \* what the exported function returned to the caller
    events,         \* history: fetch-start / fetch-return / now, in order
    calls,          \* history: every ScrapePage call that returned, with its error
    fn,             \* field-extractor harness: extractor under test
    fnArg,          \* its node argument
    fnRes           \* its result

vars == <<build, pc, api, startPage, endPage, i, pages, pageNum, doc, err,
          retrievedTime, j, posts, spRet, ret, events, calls, fn, fnArg, fnRes>>

scrapeVars == <<build, api, startPage, endPage, i, pages, pageNum, doc, err,
                retrievedTime, j, posts, spRet, ret, events, calls>>

---------------------------------------------------------------------------
(* Bounds *)

MaxPage == 3       \* largest page number the caller passes
MaxNeg == 1        \* the caller's arguments range over -MaxNeg..MaxPage
MaxTriples == 2    \* row triples of a page fetched by a direct ScrapePage call
MaxMultTriples == 1 \* row triples of a page fetched under ScrapeMultPages
MaxAnchors == 2    \* anchors of a subtext cell handed to getNumComments
MaxSpans == 2      \* matches of a "exactly one" selector
MaxLen == 3        \* length of a raw rank text

---------------------------------------------------------------------------
(* Error values *)

Nil == "nil"
ErrPageNum == "page number must be a positive integer"
ErrPageNums == "page numbers must be positive integers"
ErrRange == "starting page number cannot be larger than ending page number"
errorMsg == "could not process: page formatted unexpectedly"
ErrSyntax == "strconv.Atoi: invalid syntax"
ErrTime == "parsing time: cannot parse"
ErrFetch == "htmlquery.LoadURL failed"
PanicBounds == "runtime error: slice bounds out of range [:-1]"
PanicNil == "runtime error: invalid memory address or nil pointer dereference"

\* A call that returns (val, err), and a call that panics instead of returning.
Returned(val, e) == [kind |-> "return", val |-> val, err |-> e]
Panicked(msg) == [kind |-> "panic", val |-> 0, err |-> msg]

---------------------------------------------------------------------------
(* strings / strconv / regexp *)

DigitChars == <<"0", "1", "2", "3", "4", "5", "6", "7", "8", "9">>

IsDigit(c) == \E k \in 1..10 : DigitChars[k] = c

DigitVal(c) == (CHOOSE k \in 1..10 : DigitChars[k] = c) - 1

IsSpace(c) == c \in {" ", "\t", "\n", "\r"}

RECURSIVE DecVal(_)
DecVal(s) ==
    IF s = <<>> THEN 0
    ELSE DecVal(SubSeq(s, 1, Len(s) - 1)) * 10 + DigitVal(s[Len(s)])

\* strconv.Atoi: an optional sign, then one or more decimal digits.
Atoi(s) ==
    LET signed == Len(s) > 0 /\ s[1] \in {"+", "-"}
        body == IF signed THEN Tail(s) ELSE s
    IN  IF Len(body) = 0 \/ \E k \in 1..Len(body) : ~IsDigit(body[k])
        THEN Returned(0, ErrSyntax)
        ELSE Returned(IF signed /\ s[1] = "-" THEN 0 - DecVal(body) ELSE DecVal(body), Nil)

RECURSIVE ItoaNat(_)
ItoaNat(n) ==
    IF n < 10 THEN <<DigitChars[n + 1]>>
    ELSE ItoaNat(n \div 10) \o <<DigitChars[(n % 10) + 1]>>

\* strconv.Itoa
Itoa(n) == IF n < 0 THEN <<"-">> \o ItoaNat(0 - n) ELSE ItoaNat(n)

HasPrefix(s, p) == Len(s) >= Len(p) /\ SubSeq(s, 1, Len(p)) = p

\* strings.Contains
Contains(s, sub) ==
    \E k \in 1..(Len(s) - Len(sub) + 1) : SubSeq(s, k, k + Len(sub) - 1) = sub

\* strings.ReplaceAll, for a non-empty old: non-overlapping, left to right.
RECURSIVE ReplaceAll(_, _, _)
ReplaceAll(s, old, new) ==
    IF Len(s) < Len(old) THEN s
    ELSE IF HasPrefix(s, old)
         THEN new \o ReplaceAll(SubSeq(s, Len(old) + 1, Len(s)), old, new)
         ELSE <<s[1]>> \o ReplaceAll(Tail(s), old, new)

RECURSIVE TrimLeft(_)
TrimLeft(s) == IF s # <<>> /\ IsSpace(s[1]) THEN TrimLeft(Tail(s)) ELSE s

RECURSIVE TrimRight(_)
TrimRight(s) ==
    IF s # <<>> /\ IsSpace(s[Len(s)]) THEN TrimRight(SubSeq(s, 1, Len(s) - 1)) ELSE s

\* strings.TrimSpace
TrimSpace(s) == TrimRight(TrimLeft(s))

\* regexp "[^0-9]+" with ReplaceAllLiteralString(s, ""): only the digits stay.
StripNonDigits(s) == SelectSeq(s, IsDigit)

\* rankStr[:len(rankStr)-1]; slicing the empty string panics.
DropLast(s) == SubSeq(s, 1, Len(s) - 1)

strPoints == <<"p", "o", "i", "n", "t", "s">>
strPoint == <<"p", "o", "i", "n", "t">>
strDiscuss == <<"d", "i", "s", "c", "u", "s", "s">>
strComment == <<"c", "o", "m", "m", "e", "n", "t">>
strComments == <<"c", "o", "m", "m", "e", "n", "t", "s">>
strHide == <<"h", "i", "d", "e">>

---------------------------------------------------------------------------
(* html nodes: a table row with the elements the selectors look for.       *)
(*   rankSpans : texts of /td/span[contains(@class,'rank')]                *)
(*   tdAnchors : the /td/a anchors, [text, titlelink, href]                *)
(*   subtext   : the row's td.subtext cell, or NoNode                      *)
(* and a subtext cell:                                                     *)
(*   anchors    : its /a anchors in document order, [text, hnuser]         *)
(*   scoreSpans : texts of its span.score elements                         *)
(*   ageSpans   : title attributes of its span.age elements                *)

NoNode == [nil |-> TRUE]

Row(rankSpans, tdAnchors, subtext) ==
    [nil |-> FALSE, rankSpans |-> rankSpans, tdAnchors |-> tdAnchors, subtext |-> subtext]

Cell(anchors, scoreSpans, ageSpans) ==
    [nil |-> FALSE, anchors |-> anchors, scoreSpans |-> scoreSpans, ageSpans |-> ageSpans]

\* time.Parse("2006-01-02T15:04:05", s) over the title attributes the model uses.
TimeParse(s) ==
    IF s = "2021-03-04T05:06:07" THEN Returned(1614834367, Nil)
    ELSE Returned(0, ErrTime)

---------------------------------------------------------------------------
(* Field extractors *)

getTitle(node) ==
    LET titleQuery == node.tdAnchors
    IN  IF Len(titleQuery) # 1 THEN Returned("", errorMsg)
        ELSE Returned(titleQuery[1].text, Nil)

getRank(node) ==
    LET rankQuery == node.rankSpans
    IN  IF Len(rankQuery) # 1 THEN Returned(0, errorMsg)
        ELSE LET rankStr == rankQuery[1]
             IN  IF Len(rankStr) = 0 THEN Panicked(PanicBounds)
                 ELSE Atoi(DropLast(rankStr))

getURL(node) ==
    LET urlQuery == SelectSeq(node.tdAnchors, LAMBDA a : a.titlelink)
    IN  IF Len(urlQuery) # 1 THEN Returned("", errorMsg)
        ELSE Returned(urlQuery[1].href, Nil)

getAuthor(node) ==
    IF node.nil THEN Panicked(PanicNil)
    ELSE LET authorQuery == SelectSeq(node.anchors, LAMBDA a : a.hnuser)
         IN  IF Len(authorQuery) = 1 THEN Returned(authorQuery[1].text, Nil)
             ELSE Returned(<<>>, Nil)

getPoints(node) ==
    IF node.nil THEN Panicked(PanicNil)
    ELSE LET pointsQuery == node.scoreSpans
         IN  IF Len(pointsQuery) # 1 THEN Returned(0, errorMsg)
             ELSE Atoi(TrimSpace(ReplaceAll(pointsQuery[1], strPoints, <<>>)))

\* Faulty variant of CommentsLoop: the first "comment" anchor is kept.
RECURSIVE CommentsLoopMutFirst(_, _, _)
CommentsLoopMutFirst(q, k, commentsStr) ==
    IF k > Len(q) THEN [discuss |-> FALSE, str |-> commentsStr]
    ELSE IF Contains(q[k].text, strDiscuss) THEN [discuss |-> TRUE, str |-> commentsStr]
    ELSE IF Contains(q[k].text, strComment) /\ commentsStr = <<>>
         THEN CommentsLoopMutFirst(q, k + 1, StripNonDigits(q[k].text))
         ELSE CommentsLoopMutFirst(q, k + 1, commentsStr)

\* The loop of getNumComments over commentsQuery[k..]: commentsStr is the
\* accumulator; "discuss" returns from inside the loop.
RECURSIVE CommentsLoop(_, _, _)
CommentsLoop(q, k, commentsStr) ==
    IF k > Len(q) THEN [discuss |-> FALSE, str |-> commentsStr]
    ELSE IF Contains(q[k].text, strDiscuss) THEN [discuss |-> TRUE, str |-> commentsStr]
    ELSE IF Contains(q[k].text, strComment)
         THEN CommentsLoop(q, k + 1, StripNonDigits(q[k].text))
         ELSE CommentsLoop(q, k + 1, commentsStr)

\* The selector "/a]" of the source is read as "/a": every anchor of the cell.
getNumComments(node) ==
    IF node.nil THEN Panicked(PanicNil)
    ELSE LET commentsQuery == node.anchors
             r == CommentsLoop(commentsQuery, 1, <<>>)
         IN  IF r.discuss THEN Returned(0, Nil)
             ELSE IF r.str = <<>> THEN Returned(0, errorMsg)
             ELSE Atoi(r.str)

getTimePosted(node) ==
    IF node.nil THEN Panicked(PanicNil)
    ELSE LET timeQuery == node.ageSpans
         IN  IF Len(timeQuery) # 1 THEN Returned(0, errorMsg)
             ELSE TimeParse(timeQuery[1])

ZeroPost ==
    [Rank |-> 0, Title |-> "", Score |-> 0, By |-> <<>>, URL |-> "",
     NumComments |-> 0, TimePosted |-> 0]

\* The extractors in the order getPost calls them; the first that does not
\* return a nil error ends the call.
getPost(titleNode, subtextNode) ==
    LET title == getTitle(titleNode)
        rank == getRank(titleNode)
        url == getURL(titleNode)
        author == getAuthor(subtextNode)
        points == getPoints(subtextNode)
        numComments == getNumComments(subtextNode)
        timePosted == getTimePosted(subtextNode)
        Stop(r) == IF r.kind = "panic" THEN r ELSE Returned(ZeroPost, r.err)
        Bad(r) == r.kind = "panic" \/ r.err # Nil
    IN  IF Bad(title) THEN Stop(title)
        ELSE IF Bad(rank) THEN Stop(rank)
        ELSE IF Bad(url) THEN Stop(url)
        ELSE IF Bad(author) THEN Stop(author)
        ELSE IF Bad(points) THEN Stop(points)
        ELSE IF Bad(numComments) THEN Stop(numComments)
        ELSE IF Bad(timePosted) THEN Stop(timePosted)
        ELSE Returned([Rank |-> rank.val, Title |-> title.val, Score |-> points.val,
                       By |-> author.val, URL |-> url.val,
                       NumComments |-> numComments.val,
                       TimePosted |-> timePosted.val], Nil)

---------------------------------------------------------------------------
(* Inputs of the field extractors *)

\* All sequences over S of length at most n.
RECURSIVE SeqsUpTo(_, _)
SeqsUpTo(S, n) ==
    IF n = 0 THEN {<<>>}
    ELSE LET shorter == SeqsUpTo(S, n - 1)
         IN  shorter \cup {Append(q, x) : q \in shorter, x \in S}

Sp == <<" ">>

\* Texts of a span.score element: a count, then the site's microcopy.
ScoreNums == {0, 1, 7, 42, 1234}
ScoreWords == {<<>>, Sp \o strPoints, Sp \o strPoint, strPoints, Sp \o strPoints \o Sp}
ScoreTexts ==
    {pad \o d \o w : pad \in {<<>>, Sp}, d \in {<<>>} \cup {Itoa(n) : n \in ScoreNums},
                     w \in ScoreWords}
ScoreQueries ==
    {<<t>> : t \in ScoreTexts}
        \cup SeqsUpTo({Itoa(7) \o Sp \o strPoints, Itoa(1) \o Sp \o strPoint}, MaxSpans)

\* Texts of the anchors of a subtext cell.
CommentNums == {1, 7, 42}
AnchorWords == {strDiscuss, Sp \o strComments, Sp \o strComment, strHide}
AnchorTexts ==
    {d \o w : d \in {<<>>} \cup {Itoa(n) : n \in CommentNums}, w \in AnchorWords}
AnchorQueries ==
    SeqsUpTo({[text |-> t, hnuser |-> FALSE] : t \in AnchorTexts}, MaxAnchors)

\* Texts of a span.rank element: every string over a small alphabet.
RankAlphabet == {"7", "1", ".", "x", "-"}
RankTexts == SeqsUpTo(RankAlphabet, MaxLen)
RankQueries ==
    {<<t>> : t \in RankTexts} \cup SeqsUpTo({<<"7", ".">>, <<"1", ".">>}, MaxSpans)

NoResult == [kind |-> "none", val |-> 0, err |-> Nil]

ZeroPage == [Posts |-> <<>>, Num |-> 0, Retrieved |-> 0]

NoReturn == [pages |-> <<>>, page |-> ZeroPage, err |-> Nil]

\* The scraping state before any exported function is called.
ScrapeIdle ==
    /\ api = "none"
    /\ startPage = 0
    /\ endPage = 0
    /\ i = 0
    /\ pages = <<>>
    /\ pageNum = 0
    /\ doc = <<>>
    /\ err = Nil
    /\ retrievedTime = 0
    /\ j = 0
    /\ posts = <<>>
    /\ spRet = NoReturn
    /\ ret = NoReturn
    /\ events = <<>>
    /\ calls = <<>>

InitFields ==
    /\ build \in {"hnscraper.go", "part_000"}
    /\ ScrapeIdle
    /\ pc = "fn_ready"
    /\ fnRes = NoResult
    /\ \/ /\ fn = "getPoints"
          /\ fnArg \in {Cell(<<>>, q, <<>>) : q \in ScoreQueries}
       \/ /\ fn = "getNumComments"
          /\ fnArg \in {Cell(q, <<>>, <<>>) : q \in AnchorQueries}
       \/ /\ fn = "getRank"
          /\ fnArg \in {Row(q, <<>>, NoNode) : q \in RankQueries}

ApplyGetPoints ==
    /\ pc = "fn_ready"
    /\ fn = "getPoints"
    /\ fnRes' = getPoints(fnArg)
    /\ pc' = "fn_done"
    /\ UNCHANGED <<scrapeVars, fn, fnArg>>

ApplyGetNumComments ==
    /\ pc = "fn_ready"
    /\ fn = "getNumComments"
    /\ fnRes' = getNumComments(fnArg)
    /\ pc' = "fn_done"
    /\ UNCHANGED <<scrapeVars, fn, fnArg>>

ApplyGetRank ==
    /\ pc = "fn_ready"
    /\ fn = "getRank"
    /\ fnRes' = getRank(fnArg)
    /\ pc' = "fn_done"
    /\ UNCHANGED <<scrapeVars, fn, fnArg>>

NextFields == ApplyGetPoints \/ ApplyGetNumComments \/ ApplyGetRank

SpecFields == InitFields /\ [][NextFields]_vars

---------------------------------------------------------------------------
(* Pages the site may serve *)

hackernewsURL == <<"https://news.ycombinator.com/news?p=">>

PageURL(n) == hackernewsURL \o Itoa(n)

StoryAnchor == [text |-> "story", titlelink |-> TRUE, href |-> "http://example.com/"]

TitleRow(rankText) == Row(<<rankText>>, <<StoryAnchor>>, NoNode)

SubtextRow(cell) == Row(<<>>, <<>>, cell)

Spacer == Row(<<>>, <<>>, NoNode)

StoryCell ==
    Cell(<<[text |-> <<"p", "g">>, hnuser |-> TRUE],
           [text |-> strHide, hnuser |-> FALSE],
           [text |-> Itoa(7) \o Sp \o strComments, hnuser |-> FALSE]>>,
         <<Itoa(42) \o Sp \o strPoints>>,
         <<"2021-03-04T05:06:07">>)

\* A job listing: no score span, no user anchor.
JobCell ==
    Cell(<<[text |-> strHide, hnuser |-> FALSE]>>, <<>>, <<"2021-03-04T05:06:07">>)

Triples ==
    { <<TitleRow(<<"1", ".">>), SubtextRow(StoryCell), Spacer>>,
      <<TitleRow(<<"2", ".">>), SubtextRow(StoryCell), Spacer>>,
      <<TitleRow(<<"1", ".">>), SubtextRow(JobCell), Spacer>>,
      <<TitleRow(<<>>), SubtextRow(StoryCell), Spacer>>,
      <<TitleRow(<<"1", ".">>), Spacer, Spacer>> }

RECURSIVE Flatten(_)
Flatten(ts) == IF ts = <<>> THEN <<>> ELSE Head(ts) \o Flatten(Tail(ts))

\* The rows of the item list: row triples, then up to two trailing rows (the
\* site ends the list with a spacer row and the "More" row).
DocsUpTo(n) ==
    {Flatten(ts) \o trail : ts \in SeqsUpTo(Triples, n),
                            trail \in SeqsUpTo({Spacer}, 2)}

Docs(entry) == DocsUpTo(IF entry = "ScrapePage" THEN MaxTriples ELSE MaxMultTriples)

Args == (0 - MaxNeg)..MaxPage

---------------------------------------------------------------------------
(* ScrapePage and ScrapeMultPages *)

Init ==
    /\ build \in {"hnscraper.go", "part_000"}
    /\ ScrapeIdle
    /\ pc = "idle"
    /\ fn = "none"
    /\ fnArg = NoNode
    /\ fnRes = NoResult

Event(kind, n) == [ev |-> kind, url |-> PageURL(n)]

\* The statements of ScrapePage between the argument check and the error
\* check, in the order of each copy of the package.
OrderHnscraper == <<"sp_load", "sp_now", "sp_errcheck">>

OrderPart000 == <<"sp_now", "sp_load", "sp_errcheck">>

Order == IF build = "hnscraper.go" THEN OrderHnscraper ELSE OrderPart000

After(step) == Order[(CHOOSE k \in 1..2 : Order[k] = step) + 1]

\* Faulty variant of InvalidPage: page 0 is let through.
InvalidPageMut(n) == n < 0

\* if pageNum < 1
InvalidPage(n) == n < 1

\* if startPage < 1 || endPage < 1
InvalidPages(s, e) == s < 1 \/ e < 1

\* Faulty variant of InvertedRange: off by one.
InvertedRangeMut(s, e) == s > e + 1

\* else if startPage > endPage
InvertedRange(s, e) == s > e

\* Faulty variant of LoopCond: the end page is excluded.
LoopCondMut(k, e) == k < e

\* for ...; i <= endPage; ...
LoopCond(k, e) == k <= e

\* Faulty variant of PropagatesError: the error of ScrapePage is ignored.
PropagatesErrorMut(e) == FALSE

\* if err != nil { return pages, err }
PropagatesError(e) == e # Nil

\* Faulty variant of AppendPost: the post is put in front.
AppendPostMut(ps, post) == <<post>> \o ps

\* posts = append(posts, post)
AppendPost(ps, post) == Append(ps, post)

\* Faulty variant of PageOnRowError: the posts extracted so far are returned.
PageOnRowErrorMut(ps, n, t) == [Posts |-> ps, Num |-> n, Retrieved |-> t]

\* The page of "return page, err" inside the row loop: page is still the
\* zero value declared at the top of ScrapePage.
PageOnRowError(ps, n, t) == ZeroPage

CallScrapePage ==
    /\ pc = "idle"
    /\ \E n \in Args : pageNum' = n
    /\ api' = "ScrapePage"
    /\ pc' = "sp_check"
    /\ UNCHANGED <<build, startPage, endPage, i, pages, doc, err, retrievedTime, j,
                   posts, spRet, ret, events, calls, fn, fnArg, fnRes>>

CallScrapeMultPages ==
    /\ pc = "idle"
    /\ \E s \in Args, e \in Args : startPage' = s /\ endPage' = e
    /\ api' = "ScrapeMultPages"
    /\ pc' = "smp_check"
    /\ UNCHANGED <<build, i, pages, pageNum, doc, err, retrievedTime, j,
                   posts, spRet, ret, events, calls, fn, fnArg, fnRes>>

\* ScrapeMultPages: the argument checks.
SMPValidate ==
    /\ pc = "smp_check"
    /\ IF InvalidPages(startPage, endPage)
       THEN /\ ret' = [pages |-> pages, page |-> ZeroPage, err |-> ErrPageNums]
            /\ pc' = "done"
            /\ i' = i
       ELSE IF InvertedRange(startPage, endPage)
       THEN /\ ret' = [pages |-> pages, page |-> ZeroPage, err |-> ErrRange]
            /\ pc' = "done"
            /\ i' = i
       ELSE /\ i' = startPage
            /\ pc' = "smp_loop"
            /\ ret' = ret
    /\ UNCHANGED <<build, api, startPage, endPage, pages, pageNum, doc, err,
                   retrievedTime, j, posts, spRet, events, calls, fn, fnArg, fnRes>>

\* ScrapeMultPages: the loop test, then the call ScrapePage(i) or the final return.
SMPLoop ==
    /\ pc = "smp_loop"
    /\ IF LoopCond(i, endPage)
       THEN /\ pageNum' = i
            /\ pc' = "sp_check"
            /\ ret' = ret
       ELSE /\ ret' = [pages |-> pages, page |-> ZeroPage, err |-> Nil]
            /\ pc' = "done"
            /\ pageNum' = pageNum
    /\ UNCHANGED <<build, api, startPage, endPage, i, pages, doc, err,
                   retrievedTime, j, posts, spRet, events, calls, fn, fnArg, fnRes>>

\* ScrapePage: entry (fresh locals) and the argument check.  The copy in
\* hnscraper.go calls LoadURL and then time.Now; the other copy of the
\* package calls time.Now and then LoadURL.
SPValidate ==
    /\ pc = "sp_check"
    /\ posts' = <<>>
    /\ j' = 0
    /\ doc' = <<>>
    /\ err' = Nil
    /\ retrievedTime' = 0
    /\ IF InvalidPage(pageNum)
       THEN /\ spRet' = [pages |-> <<>>, page |-> ZeroPage, err |-> ErrPageNum]
            /\ pc' = "sp_return"
       ELSE /\ spRet' = NoReturn
            /\ pc' = Order[1]
    /\ UNCHANGED <<build, api, startPage, endPage, i, pages, pageNum, ret,
                   events, calls, fn, fnArg, fnRes>>

\* htmlquery.LoadURL is called: the request goes out.
SPLoadStart ==
    /\ pc = "sp_load"
    /\ events' = Append(events, Event("fetch-start", pageNum))
    /\ pc' = "sp_loading"
    /\ UNCHANGED <<build, api, startPage, endPage, i, pages, pageNum, doc, err,
                   retrievedTime, j, posts, spRet, ret, calls, fn, fnArg, fnRes>>

\* htmlquery.LoadURL returns: an error, or the parsed document.
SPLoadReturn ==
    /\ pc = "sp_loading"
    /\ \/ doc' = <<>> /\ err' = ErrFetch
       \/ \E d \in Docs(api) : doc' = d /\ err' = Nil
    /\ events' = Append(events, Event("fetch-return", pageNum))
    /\ pc' = After("sp_load")
    /\ UNCHANGED <<build, api, startPage, endPage, i, pages, pageNum,
                   retrievedTime, j, posts, spRet, ret, calls, fn, fnArg, fnRes>>

\* retrievedTime := time.Now(); the clock is the length of the history.
SPNow ==
    /\ pc = "sp_now"
    /\ retrievedTime' = Len(events) + 1
    /\ events' = Append(events, Event("now", pageNum))
    /\ pc' = After("sp_now")
    /\ UNCHANGED <<build, api, startPage, endPage, i, pages, pageNum, doc, err,
                   j, posts, spRet, ret, calls, fn, fnArg, fnRes>>

\* if err != nil { return page, err }
SPErrCheck ==
    /\ pc = "sp_errcheck"
    /\ IF err # Nil
       THEN /\ spRet' = [pages |-> <<>>, page |-> ZeroPage, err |-> err]
            /\ pc' = "sp_return"
       ELSE /\ spRet' = spRet
            /\ pc' = "sp_rows"
    /\ UNCHANGED <<build, api, startPage, endPage, i, pages, pageNum, doc, err,
                   retrievedTime, j, posts, ret, events, calls, fn, fnArg, fnRes>>

\* One turn of "for i := 0; i < len(listNodes)-2; i += 3", or the return
\* after the loop.  A panic in an extractor ends the program.
SPRow ==
    /\ pc = "sp_rows"
    /\ LET listNodes == doc
       IN  IF j < Len(listNodes) - 2
           THEN LET subtext == listNodes[j + 2].subtext
                    r == getPost(listNodes[j + 1], subtext)
                IN  IF r.kind = "panic"
                    THEN /\ pc' = "panic"
                         /\ UNCHANGED <<j, posts, spRet>>
                    ELSE IF r.err # Nil
                    THEN /\ spRet' = [pages |-> <<>>,
                                       page |-> PageOnRowError(posts, pageNum, retrievedTime),
                                       err |-> r.err]
                         /\ pc' = "sp_return"
                         /\ UNCHANGED <<j, posts>>
                    ELSE /\ posts' = AppendPost(posts, r.val)
                         /\ j' = j + 3
                         /\ pc' = "sp_rows"
                         /\ spRet' = spRet
           ELSE /\ spRet' = [pages |-> <<>>,
                              page |-> [Posts |-> posts, Num |-> pageNum,
                                        Retrieved |-> retrievedTime],
                              err |-> Nil]
                /\ pc' = "sp_return"
                /\ UNCHANGED <<j, posts>>
    /\ UNCHANGED <<build, api, startPage, endPage, i, pages, pageNum, doc, err,
                   retrievedTime, ret, events, calls, fn, fnArg, fnRes>>

\* ScrapePage returns: to the caller, or into the loop of ScrapeMultPages
\* (if err != nil { return pages, err }; pages = append(pages, page); i++).
SPReturn ==
    /\ pc = "sp_return"
    /\ calls' = Append(calls, [page |-> pageNum, err |-> spRet.err])
    /\ IF api = "ScrapePage"
       THEN /\ ret' = spRet
            /\ pc' = "done"
            /\ UNCHANGED <<i, pages>>
       ELSE IF PropagatesError(spRet.err)
       THEN /\ ret' = [pages |-> pages, page |-> ZeroPage, err |-> spRet.err]
            /\ pc' = "done"
            /\ UNCHANGED <<i, pages>>
       ELSE /\ pages' = Append(pages, spRet.page)
            /\ i' = i + 1
            /\ pc' = "smp_loop"
            /\ ret' = ret
    /\ UNCHANGED <<build, api, startPage, endPage, pageNum, doc, err,
                   retrievedTime, j, posts, spRet, events, fn, fnArg, fnRes>>

Next ==
    \/ CallScrapePage
    \/ CallScrapeMultPages
    \/ SMPValidate
    \/ SMPLoop
    \/ SPValidate
    \/ SPLoadStart
    \/ SPLoadReturn
    \/ SPNow
    \/ SPErrCheck
    \/ SPRow
    \/ SPReturn

Spec == Init /\ [][Next]_vars

---------------------------------------------------------------------------
(* Properties of ScrapePage and ScrapeMultPages (specification Spec) *)

IsFetch(e) == e.ev # "now"

IsFetchStart(e) == e.ev = "fetch-start"

FetchEvents == SelectSeq(events, IsFetch)

FetchStarts == SelectSeq(events, IsFetchStart)

InMult == api = "ScrapeMultPages"

ValidRange == 1 <= startPage /\ startPage <= endPage

\* C1: ScrapeMultPages with start < 1, or end < 1, or start > end returns a
\* non-nil error and an empty page list, and ScrapePage is never called and
\* no fetch is issued.
C1_InvalidRangeRejected ==
    (InMult /\ (startPage < 1 \/ endPage < 1 \/ startPage > endPage)) =>
        /\ events = <<>>
        /\ calls = <<>>
        /\ pc \in {"smp_check", "done"}
        /\ pc = "done" => (ret.err # Nil /\ ret.pages = <<>>)

C1_Witness ==
    /\ InMult
    /\ pc = "done"
    /\ startPage = 2
    /\ endPage = 1
    /\ ret.err = ErrRange
    /\ ret.pages = <<>>

\* C2: ScrapePage with pageNum < 1 returns a non-nil error and the zero
\* Page, and htmlquery.LoadURL is never called.
C2_InvalidPageRejected ==
    (api = "ScrapePage" /\ pageNum < 1) =>
        /\ events = <<>>
        /\ pc \in {"sp_check", "sp_return", "done"}
        /\ pc = "done" => (ret.err # Nil /\ ret.page = ZeroPage)

C2_Witness ==
    /\ api = "ScrapePage"
    /\ pc = "done"
    /\ pageNum = 0
    /\ ret.err = ErrPageNum
    /\ ret.page = ZeroPage

AllCallsSucceeded == \A k \in 1..Len(calls) : calls[k].err = Nil

\* C3: for 1 <= start <= end the fetches go out one at a time in ascending
\* page order from start, each returning before the next is issued; and when
\* every ScrapePage call succeeds, ScrapeMultPages returns a nil error and
\* exactly end-start+1 pages, the k-th (from 0) with Num = start+k.
C3_AscendingPages ==
    (InMult /\ ValidRange) =>
        /\ \A m \in 1..Len(FetchEvents) :
              FetchEvents[m] = Event(IF m % 2 = 1 THEN "fetch-start" ELSE "fetch-return",
                                     startPage + ((m - 1) \div 2))
        /\ (pc = "done" /\ AllCallsSucceeded) =>
              /\ ret.err = Nil
              /\ Len(ret.pages) = endPage - startPage + 1
              /\ \A k \in 0..(Len(ret.pages) - 1) : ret.pages[k + 1].Num = startPage + k
              /\ Len(FetchEvents) = 2 * (endPage - startPage + 1)

C3_Witness ==
    /\ InMult
    /\ pc = "done"
    /\ startPage = 1
    /\ endPage = 3
    /\ ret.err = Nil
    /\ Len(ret.pages) = 3
    /\ ret.pages[3].Num = 3
    /\ Len(ret.pages[2].Posts) = 1

Failures == {k \in 1..Len(calls) : calls[k].err # Nil}

\* C4: for 1 <= start <= end, if page k is the first page whose ScrapePage
\* call fails, ScrapeMultPages returns that error with exactly the pages
\* start..k-1 in ascending order; no page is fetched twice and no page
\* greater than k is fetched or scraped.
C4_StopsAtFirstFailure ==
    (InMult /\ ValidRange /\ Failures # {}) =>
        LET first == CHOOSE k \in Failures : \A m \in Failures : k <= m
            n == calls[first].page
        IN  /\ first = Len(calls)
            /\ n = startPage + first - 1
            /\ n <= endPage
            /\ Len(FetchStarts) <= first
            /\ \A m \in 1..Len(FetchStarts) :
                  FetchStarts[m] = Event("fetch-start", startPage + m - 1)
            /\ pc = "done"
            /\ ret.err = calls[first].err
            /\ Len(ret.pages) = n - startPage
            /\ \A m \in 1..Len(ret.pages) : ret.pages[m].Num = startPage + m - 1

C4_Witness ==
    /\ InMult
    /\ pc = "done"
    /\ startPage = 1
    /\ endPage = 3
    /\ Len(calls) = 2
    /\ calls[2].err = errorMsg
    /\ ret.err = errorMsg
    /\ Len(ret.pages) = 1
    /\ ret.pages[1].Num = 1

\* ScrapePage has fetched a document and is returning to its caller.
PageScraped == pc = "sp_return" /\ pageNum >= 1 /\ err = Nil

\* C7 as stated: on every Page ScrapePage returns without error, whatever the
\* item list holds, the Ranks are strictly increasing in list order and each
\* Post's Rank is the position of its row triple on the page.
C7_RanksMatchPosition ==
    (PageScraped /\ spRet.err = Nil) =>
        LET ps == spRet.page.Posts
        IN  \A k \in 1..Len(ps) :
                /\ ps[k].Rank = k
                /\ k > 1 => ps[k - 1].Rank < ps[k].Rank

\* C7 amended: on every Page ScrapePage returns without error there is one
\* Post per complete row triple, in row order, and the k-th Post's Rank is
\* the integer read from the k-th triple's rank span (its text without the
\* last character); the code does not compare it with the position or with
\* the other Ranks.
C7_RanksFollowRowOrder ==
    (PageScraped /\ spRet.err = Nil) =>
        LET ps == spRet.page.Posts
        IN  /\ Len(ps) = Len(doc) \div 3
            /\ \A k \in 1..Len(ps) :
                  ps[k].Rank = Atoi(DropLast(doc[3 * k - 2].rankSpans[1])).val

C7_Witness ==
    /\ PageScraped
    /\ spRet.err = Nil
    /\ Len(spRet.page.Posts) = 2
    /\ spRet.page.Posts[1].Rank = 2
    /\ spRet.page.Posts[2].Rank = 1

TripleResult(k) == getPost(doc[3 * k - 2], doc[3 * k - 1].subtext)

FailedTriples ==
    {k \in 1..(Len(doc) \div 3) :
        TripleResult(k).kind = "return" /\ TripleResult(k).err # Nil}

\* C8: if getPost fails for a row triple, ScrapePage returns that error with
\* a Page carrying no posts (the posts of earlier triples are discarded) and
\* processes no later triple; a Page with posts is returned only when every
\* triple of the page was extracted.
C8_RowFailureDiscardsPosts ==
    PageScraped =>
        /\ IF FailedTriples # {}
           THEN LET f == CHOOSE k \in FailedTriples : \A m \in FailedTriples : k <= m
                IN  /\ spRet.err = TripleResult(f).err
                    /\ spRet.page = ZeroPage
                    /\ j = 3 * (f - 1)
                    /\ Len(posts) = f - 1
           ELSE /\ spRet.err = Nil
                /\ Len(spRet.page.Posts) = Len(doc) \div 3
        /\ spRet.page.Posts # <<>> => (spRet.err = Nil /\ FailedTriples = {})

C8_Witness ==
    /\ PageScraped
    /\ api = "ScrapePage"
    /\ Len(posts) = 1
    /\ j = 3
    /\ spRet.err = errorMsg
    /\ spRet.page = ZeroPage

\* C9: the Retrieved timestamp is captured after the fetch has returned: in
\* every execution each time.Now of ScrapePage directly follows the return of
\* that page's fetch, which follows its start.
C9_TimestampAfterFetch ==
    \A m \in 1..Len(events) :
        events[m].ev = "now" =>
            /\ m >= 3
            /\ events[m - 1] = [ev |-> "fetch-return", url |-> events[m].url]
            /\ events[m - 2] = [ev |-> "fetch-start", url |-> events[m].url]

---------------------------------------------------------------------------
(* Properties of the field extractors (specification SpecFields) *)

FieldDone(name) == pc = "fn_done" /\ fn = name

ReturnedError(r) == r.kind = "return" /\ r.err # Nil

\* C5: given exactly one score span, the text "<n> points" and the text
\* "<n> point" both extract to n without error ("1234 points" gives 1234,
\* "1 point" gives 1).
C5_ScorePluralAgnostic ==
    \A n \in ScoreNums : \A w \in {Sp \o strPoints, Sp \o strPoint} :
        (FieldDone("getPoints") /\ fnArg.scoreSpans = <<Itoa(n) \o w>>)
            => fnRes = Returned(n, Nil)

AnyContains(q, word) == \E k \in 1..Len(q) : Contains(q[k].text, word)

\* C6 as stated: 0 if any anchor text contains "discuss"; otherwise, if some
\* anchor text contains "comment", the integer formed by that text's digits;
\* an error only if no anchor text contains "discuss" or "comment".
C6_CommentCountAsStated ==
    FieldDone("getNumComments") =>
        LET q == fnArg.anchors
        IN  /\ AnyContains(q, strDiscuss) => fnRes = Returned(0, Nil)
            /\ (~AnyContains(q, strDiscuss) /\ AnyContains(q, strComment)) =>
                    \E k \in 1..Len(q) :
                        /\ Contains(q[k].text, strComment)
                        /\ fnRes = Returned(DecVal(StripNonDigits(q[k].text)), Nil)
            /\ fnRes.err # Nil =>
                    (~AnyContains(q, strDiscuss) /\ ~AnyContains(q, strComment))

\* C6 amended: 0 if any anchor text contains "discuss"; otherwise the LAST
\* anchor text containing "comment" decides: its digits, read as a decimal
\* integer, are the count, and the call fails with the format error when that
\* text has no digit; it also fails when no anchor text contains "discuss" or
\* "comment".
C6_CommentCountLastAnchor ==
    FieldDone("getNumComments") =>
        LET q == fnArg.anchors
            hits == {k \in 1..Len(q) : Contains(q[k].text, strComment)}
        IN  IF AnyContains(q, strDiscuss) THEN fnRes = Returned(0, Nil)
            ELSE IF hits = {} THEN fnRes = Returned(0, errorMsg)
            ELSE LET last == CHOOSE k \in hits : \A m \in hits : m <= k
                     ds == StripNonDigits(q[last].text)
                 IN  IF ds = <<>> THEN fnRes = Returned(0, errorMsg)
                     ELSE fnRes = Returned(DecVal(ds), Nil)

\* Two "comment" anchors with different counts, and the later one was returned.
C6_Witness ==
    /\ FieldDone("getNumComments")
    /\ Len(fnArg.anchors) = 2
    /\ fnArg.anchors[1].text = Itoa(42) \o Sp \o strComments
    /\ fnArg.anchors[2].text = Itoa(1) \o Sp \o strComment
    /\ fnRes = Returned(1, Nil)

DigitsThenPeriod(t) ==
    /\ Len(t) >= 2
    /\ t[Len(t)] = "."
    /\ \A k \in 1..(Len(t) - 1) : IsDigit(t[k])

\* C10: with exactly one rank span whose text is digits followed by a period,
\* getRank returns those digits as an integer ("7." gives 7); for any other
\* text (the empty text, digits with no period, non-digit text) it returns an
\* error rather than a rank; with zero or several rank spans it returns an
\* error.
C10_RankDigitsThenPeriod ==
    FieldDone("getRank") =>
        LET q == fnArg.rankSpans
        IN  IF Len(q) # 1 THEN ReturnedError(fnRes)
            ELSE IF DigitsThenPeriod(q[1])
                 THEN fnRes = Returned(DecVal(SubSeq(q[1], 1, Len(q[1]) - 1)), Nil)
                 ELSE ReturnedError(fnRes)

===========================================================================
